---- MODULE Spec2Model ----
(***************************************************************************)
(* A model of the wrywebview native bindings: the thread-affinity registry *)
(* of webviews, the per-platform dispatch of the public operations onto    *)
(* the designated UI thread, the state mirror written by the native event  *)
(* handlers, and the window-handle adapter.                                 *)
(***************************************************************************)
EXTENDS Integers, Sequences, FiniteSets, TLC

\* ------------------------------------------------------------------ bounds
\* Number of webviews that may be registered in one behaviour.
MaxCreates == 2
\* Number of closures that may wait in the designated thread's queue.
MaxQueue == 2
\* Number of inbound messages the page may send to one webview.
MaxPush == 2
\* Number of locks that may be poisoned in one behaviour.
MaxPoisoned == 2

\* --------------------------------------------------------------- universes
\* The designated thread: the platform main thread (macOS, Windows) or the
\* dedicated GTK thread (Linux).
Main == "main"
Callers == {"t1", "t2"}
Threads == {Main} \cup Callers
NoThread == "none"

\* The build target; fixed for a behaviour.
Platforms == {"macos", "linux", "windows"}

Urls == {"u1", "u2"}
Msgs == {"m1", "m2"}

\* The range of the i32 arguments of make_bounds.
I32Max == 2147483647
I32Min == -I32Max - 1

\* Parent handles a host may pass: 0, and six non-zero object addresses.
Handles == 0..6

\* What the Objective-C runtime reports for the object at a non-zero handle.
HandleClass(h) ==
    CASE h = 1 -> "NSWindow"
      [] h = 2 -> "NSView"
      [] h = 3 -> "NSObject"
      [] h = 4 -> "NSWindowNoContent"
      [] h = 5 -> "NSPanel"
      [] h = 6 -> "NSButton"
      [] OTHER -> "null"

\* isKindOfClass: the class of the object or one of its superclasses.
IsKindOfClass(h, cls) ==
    CASE cls = "NSWindow" ->
            HandleClass(h) \in {"NSWindow", "NSWindowNoContent", "NSPanel"}
      [] cls = "NSView" -> HandleClass(h) \in {"NSView", "NSButton"}
      [] OTHER -> FALSE

\* [window contentView]: the address of the window's content view, 0 for nil.
contentView(h) ==
    CASE h = 1 -> 2
      [] h = 5 -> 6
      [] OTHER -> 0

\* (x, y, width, height) arguments of set_bounds.
BoundsArgs ==
    { <<0, 0, 0, 0>>, <<5, -3, I32Min, I32Max>>, <<-1, 2, 800, -1>> }
\* (width, height) arguments of create_webview.
SizeArgs == { <<800, 600>>, <<0, -7>> }

Ids == 1..MaxCreates

\* The locks of the process: the registry table, the URL, title and message
\* queue of a state mirror, and the log-sink registry.
Locks == {"table", "url", "title", "ipc", "logger"}

\* ----------------------------------------------------------------- results
OkUnit == [tag |-> "Ok", id |-> 0, str |-> "", flag |-> FALSE, list |-> <<>>]
OkId(id) == [OkUnit EXCEPT !.id = id]
OkStr(s) == [OkUnit EXCEPT !.str = s]
OkBool(b) == [OkUnit EXCEPT !.flag = b]
OkList(l) == [OkUnit EXCEPT !.list = l]
Err(tag, id) == [OkUnit EXCEPT !.tag = tag, !.id = id]
NoFail == [OkUnit EXCEPT !.tag = "NoFail"]
NoRet == [OkUnit EXCEPT !.tag = "NoRet"]
IsErr(r) == r.tag \notin {"Ok", "NoFail", "NoRet"}

\* A native widget call: which call, on which webview, with which bounds,
\* on which thread, and the thread that owns the webview.
NoNative ==
    [call |-> "none", id |-> 0, arg |-> <<0, 0, 0, 0>>, on |-> NoThread,
     owner |-> NoThread]
Native(call, id, arg, on, owner) ==
    [call |-> call, id |-> id, arg |-> arg, on |-> on, owner |-> owner]

\* The outcome of running an inner operation on registry state s:
\* the new registry, the result the inner function returns, the first
\* failure met inside it, and the native call it made.
Out(w, n, g, res, fail, nat) ==
    [w |-> w, n |-> n, g |-> g, res |-> res, fail |-> fail, nat |-> nat]
Same(s, res, fail, nat) == Out(s.w, s.n, s.g, res, fail, nat)
Failed(s, e) == Same(s, e, e, NoNative)

Max(a, b) == IF a >= b THEN a ELSE b

\* ------------------------------------------------------------ handle.rs
make_bounds_nofloor(x, y, width, height) == <<x, y, width, height>>

make_bounds(x, y, width, height) == <<x, y, Max(width, 1), Max(height, 1)>>

appkit_ns_view_from_handle_any_window(h) ==
    IF h = 0 THEN Err("InvalidWindowHandle", 0)
    ELSE IF IsKindOfClass(h, "NSWindow") THEN OkId(contentView(h))
    ELSE IF IsKindOfClass(h, "NSView") THEN OkId(h)
    ELSE Err("InvalidWindowHandle", 0)

\* The view a handle resolves to: Ok carries the NSView's address.
appkit_ns_view_from_handle(h) ==
    IF h = 0 THEN Err("InvalidWindowHandle", 0)
    ELSE IF IsKindOfClass(h, "NSWindow")
         THEN IF contentView(h) = 0 THEN Err("InvalidWindowHandle", 0)
              ELSE OkId(contentView(h))
    ELSE IF IsKindOfClass(h, "NSView") THEN OkId(h)
    ELSE Err("InvalidWindowHandle", 0)

raw_window_handle_from_nozero(plat, h) ==
    IF plat = "macos" /\ h # 0 THEN appkit_ns_view_from_handle(h) ELSE OkUnit

raw_window_handle_from(plat, h) ==
    IF h = 0 THEN Err("InvalidWindowHandle", 0)
    ELSE IF plat = "macos" THEN appkit_ns_view_from_handle(h)
    ELSE OkUnit

\* ------------------------------------------------- state.rs (the registry)
\* WebViewState::new(url): the state mirror of a webview being created.
NewState(url) ==
    [is_loading |-> TRUE, current_url |-> url, page_title |-> "",
     ipc_messages |-> <<>>]

register_reuse(s, th, entry) ==
    LET id == CHOOSE i \in 1..s.n :
                  i \notin DOMAIN s.w /\ \A j \in 1..(i - 1) : j \in DOMAIN s.w
    IN  Out([i \in DOMAIN s.w \cup {id} |->
                IF i = id THEN [entry EXCEPT !.thread_id = th] ELSE s.w[i]],
            s.n + 1, s.g, OkId(id), NoFail, NoNative)

\* The counter is a u64 incremented by fetch_add; its wrap-around lies beyond
\* every run of at most MaxCreates creations.
register(s, th, entry) ==
    Out([i \in DOMAIN s.w \cup {s.n} |->
            IF i = s.n THEN [entry EXCEPT !.thread_id = th] ELSE s.w[i]],
        s.n + 1, s.g, OkId(s.n), NoFail, NoNative)

affinity_check_lookup_only(w, id, th) ==
    IF id \notin DOMAIN w THEN Err("NotFound", id) ELSE OkUnit

\* The lookup and the affinity check of with_webview; Ok when the body runs.
affinity_check(w, id, th) ==
    IF id \notin DOMAIN w THEN Err("NotFound", id)
    ELSE IF w[id].thread_id # th THEN Err("WrongThread", id)
    ELSE OkUnit

get_state(w, id) ==
    IF id \notin DOMAIN w THEN Err("NotFound", id) ELSE OkUnit

unregister(s, id, th) ==
    IF id \notin DOMAIN s.w THEN Same(s, OkUnit, NoFail, NoNative)
    ELSE IF s.w[id].thread_id # th THEN Failed(s, Err("WrongThread", id))
    ELSE Out([i \in DOMAIN s.w \ {id} |-> s.w[i]], s.n, s.g, OkUnit, NoFail,
             Native("drop", id, s.w[id].bounds, th, s.w[id].thread_id))

push_ipc_message(e, m) == [e EXCEPT !.ipc_messages = Append(@, m)]

update_current_url(e, url) == [e EXCEPT !.current_url = url]

update_page_title(e, title) == [e EXCEPT !.page_title = title]

\* ------------------------------------------------ lib.rs (conversions)
\* Option<T>: << >> is None and <<v>> is Some(v).
None == << >>
Some(v) == <<v>>

\* An expiry timestamp past the range of OffsetDateTime (year 9999), which
\* lies beyond the model's integers: only its being out of range is used.
FarMs == I32Max

\* expires_date_ms values: negative, zero, whole seconds and fractions.
ExpiryMs == {-1500, -1000, -1, 0, 1, 999, 1000, 2001}

NoExpiration == [kind |-> "unset", secs |-> 0, nanos |-> 0]
Session == [kind |-> "Session", secs |-> 0, nanos |-> 0]
DateTime(dt) == [kind |-> "DateTime", secs |-> dt.secs, nanos |-> dt.nanos]

\* OffsetDateTime::from_unix_timestamp_nanos(expires_ms * 1_000_000): the
\* whole seconds since the epoch, rounded down, and the nanoseconds within
\* that second; an error outside the range of dates.
from_unix_timestamp_nanos(expires_ms) ==
    IF expires_ms = FarMs THEN [ok |-> FALSE, secs |-> 0, nanos |-> 0]
    ELSE [ok |-> TRUE,
          secs |-> (expires_ms * 1000000) \div 1000000000,
          nanos |-> (expires_ms * 1000000) % 1000000000]

\* WebViewCookie with the fields left out set to None.
WebViewCookie(name, value, expires_date_ms, is_session_only, same_site) ==
    [name |-> name, value |-> value, domain |-> None, path |-> None,
     expires_date_ms |-> expires_date_ms, is_session_only |-> is_session_only,
     max_age_sec |-> None, same_site |-> same_site, is_secure |-> None,
     is_http_only |-> None]

NoCookie == WebViewCookie("", "", None, FALSE, None)

\* Result<Cookie, WebViewError>
CookieResult(res, cookie) == [res |-> res, cookie |-> cookie]

cookie_from_record(cookie) ==
    LET dt == from_unix_timestamp_nanos(cookie.expires_date_ms[1])
        built ==
            [name |-> cookie.name, value |-> cookie.value,
             domain |-> cookie.domain, path |-> cookie.path,
             expires |->
                IF cookie.expires_date_ms # None THEN DateTime(dt)
                ELSE IF cookie.is_session_only THEN Session
                ELSE NoExpiration,
             max_age |-> cookie.max_age_sec,
             secure |-> cookie.is_secure,
             http_only |-> cookie.is_http_only,
             same_site |-> cookie.same_site]
    IN  IF cookie.expires_date_ms # None /\ ~dt.ok
        THEN CookieResult(Err("Internal", 0), NoCookie)
        ELSE CookieResult(OkUnit, built)

cookie_record_from_whole_seconds(cookie) ==
    [name |-> cookie.name, value |-> cookie.value,
     domain |-> cookie.domain, path |-> cookie.path,
     expires_date_ms |->
        IF cookie.expires.kind = "DateTime"
        THEN Some(cookie.expires.secs * 1000) ELSE None,
     is_session_only |-> cookie.expires.kind = "Session",
     max_age_sec |-> cookie.max_age, same_site |-> cookie.same_site,
     is_secure |-> cookie.secure, is_http_only |-> cookie.http_only]

cookie_record_from(cookie) ==
    [name |-> cookie.name, value |-> cookie.value,
     domain |-> cookie.domain, path |-> cookie.path,
     expires_date_ms |->
        IF cookie.expires.kind = "DateTime"
        THEN Some(cookie.expires.secs * 1000
                    + (cookie.expires.nanos \div 1000000))
        ELSE None,
     is_session_only |-> cookie.expires.kind = "Session",
     max_age_sec |-> cookie.max_age, same_site |-> cookie.same_site,
     is_secure |-> cookie.secure, is_http_only |-> cookie.http_only]

\* HeaderName::from_str / HeaderValue::from_str: a name is a non-empty token
\* and a value holds no control character.
HttpHeader(name, value) == [name |-> name, value |-> value]
ValidHeaderName(name) == name \in {"accept", "x-token"}
ValidHeaderValue(value) == value \in {"text/html", "abc"}

header_map_from(headers) ==
    IF \E i \in 1..Len(headers) :
           ~ValidHeaderName(headers[i].name)
           \/ ~ValidHeaderValue(headers[i].value)
    THEN Err("Internal", 0)
    ELSE OkUnit

\* --------------------------------------------------------- lib.rs (inner)
\* A closure handed to the dispatch core, or a direct call: the operation,
\* its arguments, the thread blocked on it (NoThread when nobody waits) and
\* the value already returned to the caller when it was posted without
\* waiting. For the history of the issue order it also carries the thread
\* that issued it, how many closures that thread issued earlier for the same
\* webview are still to run, and whether there was any when it was issued.
Item(op, id, b, url, handle, nav) ==
    [op |-> op, id |-> id, b |-> b, url |-> url, handle |-> handle,
     nav |-> nav, cookie |-> NoCookie, headers |-> << >>,
     from |-> NoThread, ret |-> NoRet, caller |-> NoThread, behind |-> 0,
     after |-> FALSE]

\* The native engine's answer to one call: env.native is whether the wry
\* call succeeds, env.init whether GTK initialisation succeeds, env.answer
\* what the mirror's history bookkeeping reports to can_go_back/forward.
Envs == [native : BOOLEAN, init : BOOLEAN, answer : BOOLEAN]

\* The answers that matter to an operation: GTK initialisation is attempted
\* only by a Linux create, and queries and destroy make no fallible call.
EnvsFor(plat, op) ==
    CASE op = "create" /\ plat = "linux" ->
            [native : BOOLEAN, init : BOOLEAN, answer : {FALSE}]
      [] op \in {"can_go_back", "can_go_forward"} ->
            [native : {TRUE}, init : {TRUE}, answer : BOOLEAN]
      [] op \in {"create", "set_bounds", "load_url", "stop_loading",
                 "evaluate_javascript", "load_url_with_headers",
                 "set_cookie", "get_cookies_for_url"} ->
            [native : BOOLEAN, init : {TRUE}, answer : {FALSE}]
      [] OTHER -> [native : {TRUE}, init : {TRUE}, answer : {FALSE}]

WryError == Err("WryError", 0)
Internal == Err("Internal", 0)
\* A panic unwinding out of a public operation.
Panic == Err("Panic", 0)

create_webview_inner_register_first(s, plat, it, th, env) ==
    LET raw == raw_window_handle_from(plat, it.handle)
        bounds == make_bounds(0, 0, it.b[3], it.b[4])
        entry == [thread_id |-> th, bounds |-> bounds, nav |-> it.nav,
                  cookies |-> << >>,
                  is_loading |-> NewState(it.url).is_loading,
                  current_url |-> NewState(it.url).current_url,
                  page_title |-> NewState(it.url).page_title,
                  ipc_messages |-> NewState(it.url).ipc_messages]
        r == register(s, th, entry)
    IN  IF IsErr(raw) THEN Failed(s, raw)
        ELSE IF ~env.native
             THEN [r EXCEPT !.res = WryError, !.fail = WryError,
                            !.nat = Native("build", 0, bounds, th, th)]
             ELSE [r EXCEPT !.nat = Native("build", s.n, bounds, th, th)]

create_webview_inner(s, plat, it, th, env) ==
    LET raw == raw_window_handle_from(plat, it.handle)
        bounds == make_bounds(0, 0, it.b[3], it.b[4])
        entry == [thread_id |-> th, bounds |-> bounds, nav |-> it.nav,
                  cookies |-> << >>,
                  is_loading |-> NewState(it.url).is_loading,
                  current_url |-> NewState(it.url).current_url,
                  page_title |-> NewState(it.url).page_title,
                  ipc_messages |-> NewState(it.url).ipc_messages]
    IN  IF IsErr(raw) THEN Failed(s, raw)
        ELSE IF plat = "linux" /\ ~s.g /\ ~env.init
             THEN Failed(s, Err("GtkInit", 0))
        ELSE LET s1 == [s EXCEPT !.g = IF plat = "linux" THEN TRUE ELSE @]
             IN  IF ~env.native
                 THEN Same(s1, WryError, WryError,
                           Native("build", 0, bounds, th, th))
                 ELSE IF "table" \in s1.p
                 THEN Same(s1, Internal, Internal,
                           Native("build", 0, bounds, th, th))
                 ELSE LET r == register(s1, th, entry)
                      IN  [r EXCEPT !.nat =
                               Native("build", s1.n, bounds, th, th)]

set_bounds_inner(s, it, th, env) ==
    LET bounds == make_bounds(it.b[1], it.b[2], it.b[3], it.b[4])
        chk == affinity_check(s.w, it.id, th)
    IN  IF IsErr(chk) THEN Failed(s, chk)
        ELSE LET nat == Native("set_bounds", it.id, bounds, th,
                               s.w[it.id].thread_id)
             IN  IF env.native
                 THEN Out([s.w EXCEPT ![it.id].bounds = bounds], s.n, s.g,
                          OkUnit, NoFail, nat)
                 ELSE Same(s, WryError, WryError, nat)

\* The prelude shared by the navigation operations: the loading flag is
\* stored through get_state before the affinity-checked native call.
store_loading(w, id, v) ==
    IF IsErr(get_state(w, id)) THEN w ELSE [w EXCEPT ![id].is_loading = v]

navigate_inner(s, it, th, env, call, loading) ==
    LET w1 == store_loading(s.w, it.id, loading)
        chk == affinity_check(w1, it.id, th)
    IN  IF IsErr(chk) THEN Out(w1, s.n, s.g, chk, chk, NoNative)
        ELSE LET nat == Native(call, it.id, w1[it.id].bounds, th,
                               w1[it.id].thread_id)
             IN  IF env.native THEN Out(w1, s.n, s.g, OkUnit, NoFail, nat)
                 ELSE Out(w1, s.n, s.g, WryError, WryError, nat)

load_url_inner(s, it, th, env) ==
    navigate_inner(s, it, th, env, "load_url", TRUE)

stop_loading_inner(s, it, th, env) ==
    navigate_inner(s, it, th, env, "evaluate_script", FALSE)

\* The loading flag is stored, then the headers are converted, then the
\* affinity-checked native call is made.
load_url_with_headers_inner(s, it, th, env) ==
    LET w1 == store_loading(s.w, it.id, TRUE)
        header_map == header_map_from(it.headers)
    IN  IF IsErr(header_map)
        THEN Out(w1, s.n, s.g, header_map, header_map, NoNative)
        ELSE navigate_inner(s, it, th, env, "load_url_with_headers", TRUE)

\* The engine's cookie store: a cookie replaces the one of the same name.
StoreCookie(jar, c) ==
    IF \E i \in 1..Len(jar) : jar[i].name = c.name
    THEN [i \in 1..Len(jar) |-> IF jar[i].name = c.name THEN c ELSE jar[i]]
    ELSE Append(jar, c)

\* The record is converted first, then the affinity-checked call is made.
set_cookie_inner(s, it, th, env) ==
    LET native == cookie_from_record(it.cookie)
        chk == affinity_check(s.w, it.id, th)
    IN  IF IsErr(native.res) THEN Failed(s, native.res)
        ELSE IF IsErr(chk) THEN Failed(s, chk)
        ELSE LET nat == Native("set_cookie", it.id, s.w[it.id].bounds, th,
                               s.w[it.id].thread_id)
             IN  IF env.native
                 THEN Out([s.w EXCEPT ![it.id].cookies =
                                          StoreCookie(@, native.cookie)],
                          s.n, s.g, OkUnit, NoFail, nat)
                 ELSE Same(s, WryError, WryError, nat)

get_cookies_for_url_inner(s, it, th, env) ==
    LET chk == affinity_check(s.w, it.id, th)
    IN  IF IsErr(chk) THEN Failed(s, chk)
        ELSE LET nat == Native("cookies_for_url", it.id, s.w[it.id].bounds,
                               th, s.w[it.id].thread_id)
                 cookies == s.w[it.id].cookies
             IN  IF env.native
                 THEN Same(s, OkList([i \in 1..Len(cookies) |->
                                         cookie_record_from(cookies[i])]),
                           NoFail, nat)
                 ELSE Same(s, WryError, WryError, nat)

\* The result of the native evaluation call is discarded: Ok either way.
evaluate_javascript_inner(s, it, th, env) ==
    LET chk == affinity_check(s.w, it.id, th)
    IN  IF IsErr(chk) THEN Failed(s, chk)
        ELSE Same(s, OkUnit, IF env.native THEN NoFail ELSE WryError,
                  Native("evaluate_script_with_callback", it.id,
                         s.w[it.id].bounds, th, s.w[it.id].thread_id))

destroy_webview_inner_lookup(s, it, th) ==
    IF IsErr(get_state(s.w, it.id)) THEN Failed(s, get_state(s.w, it.id))
    ELSE unregister(s, it.id, th)

destroy_webview_inner(s, it, th) == unregister(s, it.id, th)

\* State queries: get_state, then a read of the mirror; no affinity check.
get_url(s, it) ==
    LET g == get_state(s.w, it.id)
    IN  IF IsErr(g) THEN Failed(s, g)
        ELSE IF "url" \in s.p THEN Failed(s, Internal)
        ELSE Same(s, OkStr(s.w[it.id].current_url), NoFail, NoNative)

is_loading(s, it) ==
    LET g == get_state(s.w, it.id)
    IN  IF IsErr(g) THEN Failed(s, g)
        ELSE Same(s, OkBool(s.w[it.id].is_loading), NoFail, NoNative)

get_title(s, it) ==
    LET g == get_state(s.w, it.id)
    IN  IF IsErr(g) THEN Failed(s, g)
        ELSE IF "title" \in s.p THEN Failed(s, Internal)
        ELSE Same(s, OkStr(s.w[it.id].page_title), NoFail, NoNative)

can_go_back(s, it, env) ==
    LET g == get_state(s.w, it.id)
    IN  IF IsErr(g) THEN Failed(s, g)
        ELSE Same(s, OkBool(env.answer), NoFail, NoNative)

can_go_forward(s, it, env) ==
    LET g == get_state(s.w, it.id)
    IN  IF IsErr(g) THEN Failed(s, g)
        ELSE Same(s, OkBool(env.answer), NoFail, NoNative)

drain_ipc_messages_copy(s, it) ==
    LET g == get_state(s.w, it.id)
    IN  IF IsErr(g) THEN Failed(s, g)
        ELSE Same(s, OkList(s.w[it.id].ipc_messages), NoFail, NoNative)

drain_ipc_messages(s, it) ==
    LET g == get_state(s.w, it.id)
    IN  IF IsErr(g) THEN Failed(s, g)
        ELSE IF "ipc" \in s.p THEN Failed(s, Internal)
        ELSE Out([s.w EXCEPT ![it.id].ipc_messages = <<>>], s.n, s.g,
                 OkList(s.w[it.id].ipc_messages), NoFail, NoNative)

DispatchedOps ==
    {"create", "set_bounds", "load_url", "stop_loading",
     "evaluate_javascript", "destroy", "load_url_with_headers", "set_cookie",
     "get_cookies_for_url"}
QueryOps ==
    {"get_url", "is_loading", "get_title", "can_go_back", "can_go_forward",
     "drain_ipc_messages"}

\* Running operation it.op on thread th. Every operation but create starts
\* by locking the registry table, which fails when the lock is poisoned.
Exec(s, plat, it, th, env) ==
    CASE it.op # "create" /\ "table" \in s.p -> Failed(s, Internal)
      [] it.op = "create" -> create_webview_inner(s, plat, it, th, env)
      [] it.op = "set_bounds" -> set_bounds_inner(s, it, th, env)
      [] it.op = "load_url" -> load_url_inner(s, it, th, env)
      [] it.op = "stop_loading" -> stop_loading_inner(s, it, th, env)
      [] it.op = "evaluate_javascript" ->
            evaluate_javascript_inner(s, it, th, env)
      [] it.op = "destroy" -> destroy_webview_inner(s, it, th)
      [] it.op = "load_url_with_headers" ->
            load_url_with_headers_inner(s, it, th, env)
      [] it.op = "set_cookie" -> set_cookie_inner(s, it, th, env)
      [] it.op = "get_cookies_for_url" ->
            get_cookies_for_url_inner(s, it, th, env)
      [] it.op = "get_url" -> get_url(s, it)
      [] it.op = "is_loading" -> is_loading(s, it)
      [] it.op = "get_title" -> get_title(s, it)
      [] it.op = "can_go_back" -> can_go_back(s, it, env)
      [] it.op = "can_go_forward" -> can_go_forward(s, it, env)
      [] it.op = "drain_ipc_messages" -> drain_ipc_messages(s, it)

\* ------------------------------------------------------------------- state
VARIABLES
    platform,    \* the build target
    webviews,    \* the registry table: id -> entry (widget, owner, mirror)
    next_id,     \* the identifier counter
    gtk_init,    \* whether GTK has been initialised (Linux)
    queue,       \* closures waiting for the designated thread, oldest first
    pc,          \* per caller thread: "idle", or "waiting" in a blocking dispatch
    observe,     \* the history kept: "none", "last", "thread", "bounds",
                 \* "order" or "dead"
    last,        \* history: the operation or handler that ran most recently
    issued,      \* history: identifiers returned by create, in return order
    destroyed,   \* history: issued ids for which a destroy call has returned
    hist,        \* history per id: mirror provenance and message logs
    poisoned,    \* the locks a thread panicked while holding
    logger,      \* the log-sink registry: None or Some(sink)
    inflight     \* the closure whose native call body the designated thread
                 \* has entered and not left, or NoItem

vars ==
    <<platform, webviews, next_id, gtk_init, queue, pc, observe, last, issued,
      destroyed, hist, poisoned, logger, inflight>>

ZeroB == <<0, 0, 0, 0>>
NoItem == Item("none", 0, ZeroB, "", 0, FALSE)
NoHist ==
    [mark |-> "none", url |-> "", pushed |-> <<>>, drained |-> <<>>,
     want |-> <<>>, overtaken |-> FALSE, in_order |-> TRUE,
     followed |-> FALSE, dead |-> FALSE]

\* The record of one run of an operation: the closure, the thread it ran
\* on, the inner result, the first failure met, the value its caller
\* received, whether its id was registered before, whether the registry was
\* left as it was, whether the registered identifiers and the counter were,
\* how the closure was routed and by which caller, the native call made, and
\* the locks that were poisoned when it ran.
NoLast ==
    [it |-> NoItem, on |-> NoThread, res |-> NoRet, fail |-> NoFail,
     returned |-> NoRet, live |-> FALSE, owner |-> NoThread, same |-> TRUE,
     ids_kept |-> TRUE, route |-> "none", by |-> NoThread,
     nat |-> NoNative, locks |-> {}]

Returned(it, r) == IF it.ret = NoRet THEN r.res ELSE it.ret

\* How a closure reached the thread it runs on: called in place, posted
\* with its caller blocked, or posted with its caller answered at once.
Route(it) ==
    IF it.ret # NoRet THEN "async"
    ELSE IF it.from # NoThread THEN "sync"
    ELSE "inline"

Observed(it, th, r) ==
    [it |-> [it EXCEPT !.from = NoThread, !.ret = NoRet,
                       !.caller = NoThread, !.behind = 0, !.after = FALSE],
     on |-> th,
     res |-> r.res, fail |-> r.fail,
     returned |-> Returned(it, r), live |-> it.id \in DOMAIN webviews,
     owner |-> IF it.id \in DOMAIN webviews THEN webviews[it.id].thread_id
               ELSE NoThread,
     same |-> (r.w = webviews /\ r.n = next_id /\ r.g = gtk_init),
     ids_kept |-> (DOMAIN r.w = DOMAIN webviews /\ r.n = next_id),
     route |-> Route(it), by |-> IF Route(it) = "sync" THEN it.from
                                 ELSE IF Route(it) = "inline" THEN th
                                 ELSE NoThread,
     nat |-> r.nat, locks |-> poisoned]

\* The short record: which operation ran, and on which thread.
Ran(it, th) ==
    [NoLast EXCEPT !.it = [NoItem EXCEPT !.op = it.op], !.on = th]

InitWith(obs) ==
    /\ platform \in Platforms
    /\ observe = obs
    /\ last = NoLast
    /\ webviews = << >>
    /\ next_id = 1
    /\ gtk_init = FALSE
    /\ queue = << >>
    /\ pc = [t \in Callers |-> "idle"]
    /\ issued = << >>
    /\ destroyed = {}
    /\ hist = [i \in Ids |-> NoHist]
    /\ poisoned = {}
    /\ logger = None
    /\ inflight = NoItem

\* A destroy call on an identifier that create had returned comes back.
DestroyReturned(it) ==
    IF it.op = "destroy" /\ \E i \in 1..Len(issued) : issued[i] = it.id
    THEN destroyed \cup {it.id} ELSE destroyed

Cur == [w |-> webviews, n |-> next_id, g |-> gtk_init, p |-> poisoned]

\* set_bounds closures for id in the queue: all of them, those whose caller
\* is still blocked, and those whose caller was answered when posting.
PendingSetBounds(id) ==
    {i \in 1..Len(queue) : queue[i].op = "set_bounds" /\ queue[i].id = id}
Unreturned(id) == {i \in PendingSetBounds(id) : queue[i].from # NoThread}
Answered(id) == {i \in PendingSetBounds(id) : queue[i].ret # NoRet}

\* History of the set_bounds calls in issue order: `want` is the arguments
\* of the call issued last when every earlier call on the id had returned
\* (<< >> when calls overlap) and `overtaken` whether that call ran inline
\* ahead of an answered call still queued.
Issued(h, it, inline) ==
    IF observe = "bounds" /\ it.op = "set_bounds"
    THEN [h EXCEPT ![it.id].want = IF Unreturned(it.id) = {} THEN it.b
                                   ELSE << >>,
                   ![it.id].overtaken = inline /\ Answered(it.id) # {}]
    ELSE h

\* The closures in q that thread t issued for webview id.
IssuedBy(q, t, id) ==
    {i \in 1..Len(q) : q[i].caller = t /\ q[i].id = id}

\* A closure as thread t posts it: stamped, when the issue order is kept,
\* with its issuer and the number of that issuer's closures ahead of it.
Stamped(it, t) ==
    IF observe = "order"
    THEN [it EXCEPT !.caller = t,
                    !.behind = Cardinality(IssuedBy(queue, t, it.id)),
                    !.after = IssuedBy(queue, t, it.id) # {}]
    ELSE it

\* The queue once closure `it` has run: one closure fewer is ahead of those
\* its issuer issued later for the same webview.
Served(q, it) ==
    [i \in 1..Len(q) |->
        IF it.caller # NoThread /\ q[i].caller = it.caller
           /\ q[i].id = it.id /\ q[i].behind > 0
        THEN [q[i] EXCEPT !.behind = @ - 1] ELSE q[i]]

\* The issue-order history of a webview: whether every closure ran with
\* none of its issuer's earlier closures still waiting, and whether a
\* closure issued behind another one of the same issuer has run.
OrderAfter(h, it) ==
    IF observe = "order" /\ it.caller # NoThread /\ it.id \in Ids
    THEN [h EXCEPT ![it.id].in_order = @ /\ it.behind = 0,
                   ![it.id].followed = @ \/ it.after]
    ELSE h

\* The history of the identifiers found dead: an identifier that create had
\* returned is marked once a caller has received NotFound for it.
DeadAfter(h, it, r) ==
    IF /\ observe = "dead"
       /\ \E i \in 1..Len(issued) : issued[i] = it.id
       /\ Returned(it, r) = Err("NotFound", it.id)
    THEN [h EXCEPT ![it.id].dead = TRUE]
    ELSE h

\* How running an operation changes the history of its id.
HistAfter(h, it, r) ==
    CASE it.op = "create" /\ ~IsErr(r.res) ->
            [h EXCEPT ![r.res.id] = [NoHist EXCEPT !.mark = "new"]]
      [] it.op = "drain_ipc_messages" /\ ~IsErr(r.res) ->
            [h EXCEPT ![it.id].drained = @ \o r.res.list]
      [] it.op \in {"load_url", "stop_loading", "load_url_with_headers"}
            /\ it.id \in DOMAIN webviews ->
            [h EXCEPT ![it.id].mark = "other"]
      [] it.op = "set_bounds" /\ IsErr(r.fail) ->
            [h EXCEPT ![it.id].want = << >>]
      [] OTHER -> h

\* Operation `it` runs on thread th with the engine answering env; the
\* caller receives it.ret if that was returned when the closure was posted,
\* and the inner result otherwise.
Apply(it, th, env, h) ==
    \E r \in {Exec(Cur, platform, it, th, env)} :
        /\ webviews' = r.w
        /\ next_id' = r.n
        /\ gtk_init' = r.g
        /\ last' = CASE observe \in {"last", "dead"} -> Observed(it, th, r)
                     [] observe = "thread" -> Ran(it, th)
                     [] OTHER -> last
        /\ issued' = IF it.op = "create" /\ ~IsErr(r.res)
                     THEN Append(issued, r.res.id) ELSE issued
        /\ destroyed' = DestroyReturned(it)
        /\ hist' = DeadAfter(OrderAfter(HistAfter(h, it, r), it), it, r)
        /\ UNCHANGED <<platform, observe, poisoned, logger>>

\* ---------------------------------------------------------------- dispatch
\* A thread may enter the facade when it is not blocked in a dispatch; the
\* GTK thread runs only what is posted to it.
CanCall(t) ==
    IF t = Main THEN platform # "linux" ELSE pc[t] = "idle"

Inline(it, t) ==
    /\ \E env \in EnvsFor(platform, it.op) :
          Apply(it, t, env, Issued(hist, it, TRUE))
    /\ UNCHANGED <<queue, pc, inflight>>

PostSync(it, t) ==
    /\ Len(queue) < MaxQueue
    /\ queue' = Append(queue, [Stamped(it, t) EXCEPT !.from = t])
    /\ pc' = [pc EXCEPT ![t] = "waiting"]
    /\ hist' = Issued(hist, it, FALSE)
    /\ UNCHANGED <<platform, webviews, next_id, gtk_init, observe, last,
                   issued, destroyed, poisoned, logger, inflight>>

PostAsync_front(it, t) ==
    /\ Len(queue) < MaxQueue
    /\ queue' = << [Stamped(it, t) EXCEPT !.ret = OkUnit] >> \o queue
    /\ destroyed' = DestroyReturned(it)
    /\ hist' = Issued(hist, it, FALSE)
    /\ UNCHANGED <<platform, webviews, next_id, gtk_init, pc, observe, last,
                   issued, poisoned, logger, inflight>>

\* DispatchQueue::main().exec_async: the caller gets Ok(()) at once.
PostAsync(it, t) ==
    /\ Len(queue) < MaxQueue
    /\ queue' = Append(queue, [Stamped(it, t) EXCEPT !.ret = OkUnit])
    /\ destroyed' = DestroyReturned(it)
    /\ hist' = Issued(hist, it, FALSE)
    /\ UNCHANGED <<platform, webviews, next_id, gtk_init, pc, observe, last,
                   issued, poisoned, logger, inflight>>

run_on_main_thread_always_post(it, t) == PostSync(it, t)

\* platform/macos.rs run_on_main: inline on the main thread, else a blocking
\* dispatch to the main queue.
run_on_main_thread(it, t) ==
    IF t = Main THEN Inline(it, t) ELSE PostSync(it, t)

\* The dedicated GTK thread: post and block until the closure has run.
run_on_gtk_thread(it, t) == PostSync(it, t)

Dispatch_on_caller(it, t) == Inline(it, t)

\* Every dispatched operation but set_bounds and destroy on macOS.
Dispatch(it, t) ==
    IF platform = "linux" THEN run_on_gtk_thread(it, t)
    ELSE run_on_main_thread(it, t)

DispatchOrPost_on_caller(it, t) == Inline(it, t)

\* set_bounds and destroy_webview: on macOS inline on the main thread and
\* posted without waiting from any other thread.
DispatchOrPost(it, t) ==
    IF platform = "macos"
    THEN IF t = Main THEN Inline(it, t) ELSE PostAsync(it, t)
    ELSE Dispatch(it, t)

RunQueued_no_release ==
    /\ queue # << >>
    /\ \E env \in EnvsFor(platform, Head(queue).op) :
          Apply(Head(queue), Main, env, hist)
    /\ queue' = Served(Tail(queue), Head(queue))
    /\ pc' = pc
    /\ inflight' = inflight

\* The designated thread runs the oldest waiting closure and releases the
\* caller blocked on it.
RunQueued ==
    /\ queue # << >>
    /\ \E env \in EnvsFor(platform, Head(queue).op) :
          Apply(Head(queue), Main, env, hist)
    /\ queue' = Served(Tail(queue), Head(queue))
    /\ pc' = IF Head(queue).from \in Callers
             THEN [pc EXCEPT ![Head(queue).from] = "idle"] ELSE pc
    /\ inflight' = inflight

\* The operations whose body is a native call made through with_webview.
WidgetOps == DispatchedOps \ {"create", "destroy"}

DesignatedIdle_reentrant == TRUE

\* The designated thread is between closures: it has no native call body
\* entered and not left.
DesignatedIdle == inflight = NoItem

\* with_webview, first half: the designated thread takes the oldest waiting
\* closure, finds its entry, passes the affinity check and enters the body
\* with the table lock released.
BeginBody ==
    /\ DesignatedIdle
    /\ queue # << >>
    /\ Head(queue).op \in WidgetOps
    /\ ~IsErr(affinity_check(webviews, Head(queue).id, Main))
    /\ inflight' = Head(queue)
    /\ UNCHANGED <<platform, webviews, next_id, gtk_init, queue, pc, observe,
                   last, issued, destroyed, hist, poisoned, logger>>

\* with_webview, second half: the native call returns, the closure is done
\* and its caller released.
EndBody ==
    /\ inflight # NoItem
    /\ queue # << >>
    /\ Head(queue) = inflight
    /\ \E env \in EnvsFor(platform, Head(queue).op) :
          Apply(Head(queue), Main, env, hist)
    /\ queue' = Served(Tail(queue), Head(queue))
    /\ pc' = IF Head(queue).from \in Callers
             THEN [pc EXCEPT ![Head(queue).from] = "idle"] ELSE pc
    /\ inflight' = NoItem

\* ------------------------------------------------------------ lib.rs facade
PendingCreates == Cardinality({i \in 1..Len(queue) : queue[i].op = "create"})

create_webview(t, h, sz, u, nav) ==
    /\ CanCall(t)
    /\ next_id + PendingCreates <= MaxCreates
    /\ Dispatch(Item("create", 0, <<0, 0, sz[1], sz[2]>>, u, h, nav), t)

set_bounds(t, id, b) ==
    /\ CanCall(t)
    /\ DispatchOrPost(Item("set_bounds", id, b, "", 0, FALSE), t)

load_url(t, id, u) ==
    /\ CanCall(t)
    /\ Dispatch(Item("load_url", id, ZeroB, u, 0, FALSE), t)

stop_loading(t, id) ==
    /\ CanCall(t)
    /\ Dispatch(Item("stop_loading", id, ZeroB, "", 0, FALSE), t)

evaluate_javascript(t, id) ==
    /\ CanCall(t)
    /\ Dispatch(Item("evaluate_javascript", id, ZeroB, "", 0, FALSE), t)

load_url_with_headers(t, id, u, headers) ==
    /\ CanCall(t)
    /\ Dispatch([Item("load_url_with_headers", id, ZeroB, u, 0, FALSE)
                    EXCEPT !.headers = headers], t)

set_cookie(t, id, cookie) ==
    /\ CanCall(t)
    /\ Dispatch([Item("set_cookie", id, ZeroB, "", 0, FALSE)
                    EXCEPT !.cookie = cookie], t)

get_cookies_for_url(t, id, u) ==
    /\ CanCall(t)
    /\ Dispatch(Item("get_cookies_for_url", id, ZeroB, u, 0, FALSE), t)

destroy_webview(t, id) ==
    /\ CanCall(t)
    /\ DispatchOrPost(Item("destroy", id, ZeroB, "", 0, FALSE), t)

state_query_dispatched(t, op, id) ==
    /\ CanCall(t)
    /\ Dispatch(Item(op, id, ZeroB, "", 0, FALSE), t)

\* get_url, is_loading, get_title, can_go_back, can_go_forward and
\* drain_ipc_messages: run on the calling thread.
state_query(t, op, id) ==
    /\ t \in Callers => pc[t] = "idle"
    /\ Inline(Item(op, id, ZeroB, "", 0, FALSE), t)

\* ------------------------------------------- lib.rs native event handlers
Fired_every_webview(name, id, url, e, res, h) ==
    /\ webviews' = [i \in DOMAIN webviews |-> e]
    /\ last' = IF observe = "last"
               THEN [NoLast EXCEPT !.it = Item(name, id, ZeroB, url, 0, FALSE),
                                   !.on = Main, !.res = res,
                                   !.returned = res, !.live = TRUE,
                                   !.owner = webviews[id].thread_id,
                                   !.same = (e = webviews[id]),
                                   !.locks = poisoned]
               ELSE last
    /\ hist' = [hist EXCEPT ![id] = h]
    /\ UNCHANGED <<platform, next_id, gtk_init, queue, pc, observe, issued,
                   destroyed, poisoned, logger, inflight>>

\* A handler registered at creation fires on the designated thread for a
\* webview that still exists; `e` is the mirror it leaves, `res` its answer.
Fired(name, id, url, e, res, h) ==
    /\ webviews' = [webviews EXCEPT ![id] = e]
    /\ last' = IF observe = "last"
               THEN [NoLast EXCEPT !.it = Item(name, id, ZeroB, url, 0, FALSE),
                                   !.on = Main, !.res = res,
                                   !.returned = res, !.live = TRUE,
                                   !.owner = webviews[id].thread_id,
                                   !.same = (e = webviews[id]),
                                   !.locks = poisoned]
               ELSE last
    /\ hist' = [hist EXCEPT ![id] = h]
    /\ UNCHANGED <<platform, next_id, gtk_init, queue, pc, observe, issued,
                   destroyed, poisoned, logger, inflight>>

navigation_handler_always_update(id, url, allow) ==
    /\ id \in DOMAIN webviews
    /\ LET e == webviews[id]
           h == [hist[id] EXCEPT !.mark = "other"]
       IN  Fired("navigation_handler", id, url,
                 update_current_url([e EXCEPT !.is_loading = TRUE], url),
                 OkBool(IF e.nav THEN allow ELSE TRUE), h)

navigation_handler_always_allow(id, url, allow) ==
    /\ id \in DOMAIN webviews
    /\ LET e == webviews[id]
           h == [hist[id] EXCEPT !.mark = "other"]
       IN  IF e.nav
           THEN Fired("navigation_handler", id, url, e, OkBool(TRUE), h)
           ELSE Fired("navigation_handler", id, url,
                      IF "url" \in poisoned THEN [e EXCEPT !.is_loading = TRUE]
                      ELSE update_current_url([e EXCEPT !.is_loading = TRUE],
                                              url),
                      OkBool(TRUE), h)

\* with_navigation_handler: the host's handler decides when one was given;
\* otherwise the mirror is updated and the navigation allowed.
navigation_handler(id, url, allow) ==
    /\ id \in DOMAIN webviews
    /\ LET e == webviews[id]
           h == [hist[id] EXCEPT !.mark = "other"]
       IN  IF e.nav
           THEN Fired("navigation_handler", id, url, e, OkBool(allow), h)
           ELSE Fired("navigation_handler", id, url,
                      IF "url" \in poisoned THEN [e EXCEPT !.is_loading = TRUE]
                      ELSE update_current_url([e EXCEPT !.is_loading = TRUE],
                                              url),
                      OkBool(TRUE), h)

page_load_finished_keep_url(e, url) == [e EXCEPT !.is_loading = FALSE]

page_load_finished(e, url) ==
    update_current_url([e EXCEPT !.is_loading = FALSE], url)

page_load_started(e, url) == [e EXCEPT !.is_loading = TRUE]

\* with_on_page_load_handler
page_load_handler(id, event, url) ==
    /\ id \in DOMAIN webviews
    /\ IF event = "Started"
       THEN Fired("page_load_started", id, url,
                  page_load_started(webviews[id], url), OkUnit,
                  [hist[id] EXCEPT !.mark = "other"])
       ELSE IF "url" \in poisoned
       THEN Fired("page_load_finished", id, url,
                  [webviews[id] EXCEPT !.is_loading = FALSE], OkUnit,
                  [hist[id] EXCEPT !.mark = "other"])
       ELSE Fired("page_load_finished", id, url,
                  page_load_finished(webviews[id], url), OkUnit,
                  [hist[id] EXCEPT !.mark = "finished", !.url = url])

\* The host's navigation handler, running on the designated thread inside
\* with_navigation_handler, calls back into the facade.
host_navigation_handler(id, url) ==
    /\ id \in DOMAIN webviews
    /\ webviews[id].nav
    /\ load_url(Main, id, url)

\* with_document_title_changed_handler
document_title_changed_handler(id, title) ==
    /\ id \in DOMAIN webviews
    /\ Fired("document_title_changed_handler", id, title,
             IF "title" \in poisoned THEN webviews[id]
             ELSE update_page_title(webviews[id], title), OkUnit, hist[id])

\* with_ipc_handler
ipc_handler(id, m) ==
    /\ id \in DOMAIN webviews
    /\ Len(hist[id].pushed) < MaxPush
    /\ IF "ipc" \in poisoned
       THEN Fired("ipc_handler", id, "", webviews[id], OkUnit, hist[id])
       ELSE Fired("ipc_handler", id, "", push_ipc_message(webviews[id], m),
                  OkUnit, [hist[id] EXCEPT !.pushed = Append(@, m)])

\* ------------------------------------------------------- lib.rs log sink
Sinks == {"sink1"}

\* get_logger_registry().write().unwrap(): the sink is stored under the
\* write guard; unwrap panics when the lock is poisoned.
set_native_logger(t, sink) ==
    /\ CanCall(t)
    /\ logger' = IF "logger" \in poisoned THEN logger ELSE Some(sink)
    /\ last' = IF observe = "last"
               THEN [NoLast EXCEPT
                       !.it = [NoItem EXCEPT !.op = "set_native_logger"],
                       !.on = t, !.by = t, !.route = "inline",
                       !.res = IF "logger" \in poisoned THEN Panic
                               ELSE OkUnit,
                       !.returned = IF "logger" \in poisoned THEN Panic
                                    ELSE OkUnit,
                       !.same = TRUE, !.locks = poisoned]
               ELSE last
    /\ UNCHANGED <<platform, webviews, next_id, gtk_init, queue, pc, observe,
                   issued, destroyed, hist, poisoned, inflight>>

\* A thread panics while it holds lock l: the lock stays poisoned.
PanicHolding(l) ==
    /\ l \notin poisoned
    /\ Cardinality(poisoned) < MaxPoisoned
    /\ poisoned' = poisoned \cup {l}
    /\ UNCHANGED <<platform, webviews, next_id, gtk_init, queue, pc, observe,
                   last, issued, destroyed, hist, logger, inflight>>

\* ------------------------------------------------------------ specification
Init == InitWith("none")

OneSize == { <<0, -7>> }
OneUrl == {"u1"}
TwoBounds == { <<0, 0, 0, 0>>, <<5, -3, I32Max, I32Min>> }

\* The lifecycle, bounds and script operations called by the threads T,
\* and the designated thread draining its queue.
Lifecycle(T, H, B) ==
    \/ \E t \in T, h \in H, sz \in OneSize, u \in OneUrl :
          create_webview(t, h, sz, u, FALSE)
    \/ \E t \in T, id \in Ids, b \in B : set_bounds(t, id, b)
    \/ \E t \in T, id \in Ids : evaluate_javascript(t, id)
    \/ \E t \in T, id \in Ids : destroy_webview(t, id)
    \/ RunQueued

\* Navigation and the state queries called by the threads T.
Reads(T) ==
    \/ \E t \in T, id \in Ids, u \in OneUrl : load_url(t, id, u)
    \/ \E t \in T, op \in QueryOps, id \in Ids : state_query(t, op, id)

Next == Lifecycle(Threads, {0, 1}, TwoBounds) \/ Reads(Threads)

Spec == Init /\ [][Next]_vars

\* The lifecycle with the record of the last operation kept.
InitObserved == InitWith("last")

NextObserved == Lifecycle({Main, "t1"}, {0, 1}, TwoBounds)

SpecObserved == InitObserved /\ [][NextObserved]_vars

\* The inner operations entered directly on any thread: the registry's
\* affinity contract, with the record of the last operation kept.
inner_call(t, it) ==
    /\ it.op = "create" => next_id <= MaxCreates
    /\ Inline(it, t)

NextRegistry ==
    \/ \E t \in Threads, sz \in OneSize, u \in OneUrl :
          inner_call(t, Item("create", 0, <<0, 0, sz[1], sz[2]>>, u, 1, FALSE))
    \/ \E t \in Threads, id \in Ids, b \in TwoBounds :
          inner_call(t, Item("set_bounds", id, b, "", 0, FALSE))
    \/ \E t \in Threads, id \in Ids :
          inner_call(t, Item("evaluate_javascript", id, ZeroB, "", 0, FALSE))
    \/ \E t \in Threads, id \in Ids :
          inner_call(t, Item("destroy", id, ZeroB, "", 0, FALSE))

SpecRegistry == InitObserved /\ [][NextRegistry]_vars

\* One webview at a time with its state mirror: navigation, the queries and
\* the navigation and page-load handlers.
NextMirror ==
    \/ \E t \in {Main, "t1"}, u \in Urls, nav \in BOOLEAN :
          webviews = << >> /\ create_webview(t, 1, <<800, 600>>, u, nav)
    \/ \E t \in {Main, "t1"}, id \in Ids, u \in Urls : load_url(t, id, u)
    \/ \E t \in {Main, "t1"}, id \in Ids : stop_loading(t, id)
    \/ \E t \in {Main, "t1"}, id \in Ids : destroy_webview(t, id)
    \/ \E t \in {Main, "t1"}, op \in {"get_url", "is_loading"}, id \in Ids :
          state_query(t, op, id)
    \/ RunQueued
    \/ \E id \in Ids, u \in Urls, allow \in BOOLEAN :
          navigation_handler(id, u, allow)
    \/ \E id \in Ids, ev \in {"Started", "Finished"}, u \in Urls :
          page_load_handler(id, ev, u)

SpecMirror == Init /\ [][NextMirror]_vars

\* The inbound message queue: the page pushes messages on the designated
\* thread while every thread drains, creates and destroys.
NextIpc ==
    \/ \E t \in Threads, u \in OneUrl :
          create_webview(t, 1, <<800, 600>>, u, FALSE)
    \/ \E t \in Threads, id \in Ids : destroy_webview(t, id)
    \/ \E t \in Threads, id \in Ids :
          state_query(t, "drain_ipc_messages", id)
    \/ RunQueued
    \/ \E id \in Ids, m \in Msgs : ipc_handler(id, m)

SpecIpc == Init /\ [][NextIpc]_vars

\* The bounds of the webviews under create, set_bounds and destroy from
\* every thread, with the history of the set_bounds calls kept.
NextBounds ==
    \/ \E t \in Threads, sz \in OneSize, u \in OneUrl :
          create_webview(t, 1, sz, u, FALSE)
    \/ \E t \in Threads, id \in Ids, b \in TwoBounds : set_bounds(t, id, b)
    \/ \E t \in Threads, id \in Ids : destroy_webview(t, id)
    \/ RunQueued

SpecBounds == InitWith("bounds") /\ [][NextBounds]_vars

\* Creation with every kind of parent handle, the record of the last
\* operation kept.
NextHandle ==
    \/ \E t \in {Main, "t1"}, h \in Handles, u \in OneUrl :
          create_webview(t, h, <<800, 600>>, u, FALSE)
    \/ \E t \in {Main, "t1"}, id \in Ids : destroy_webview(t, id)
    \/ RunQueued

SpecHandle == InitObserved /\ [][NextHandle]_vars

\* The cookie records a host may pass.
CookieRecords ==
    { WebViewCookie("sid", v, e, so, ss) :
        v \in {"v1", "v2"},
        e \in {None} \cup {Some(ms) : ms \in ExpiryMs \cup {FarMs}},
        so \in BOOLEAN,
        ss \in {None, Some("None"), Some("Lax"), Some("Strict")} }

\* The records written to a webview's store while the model runs.
HostCookies ==
    { WebViewCookie("sid", "v1", e, so, Some("Lax")) :
        e \in {None, Some(-1500), Some(FarMs)}, so \in BOOLEAN }

\* One webview and its cookies: records are written and read back, the
\* record of the last operation kept.
NextCookie ==
    \/ \E t \in {Main, "t1"}, u \in OneUrl :
          webviews = << >> /\ create_webview(t, 1, <<800, 600>>, u, FALSE)
    \/ \E t \in {Main, "t1"}, id \in Ids, c \in HostCookies :
          set_cookie(t, id, c)
    \/ \E t \in {Main, "t1"}, id \in Ids, u \in OneUrl :
          get_cookies_for_url(t, id, u)
    \/ RunQueued

SpecCookie == InitObserved /\ [][NextCookie]_vars

Titles == {"Home"}

\* The state queries from every thread while webviews are created and
\* destroyed, closures wait for the designated thread and the title handler
\* writes the mirror; the record of the last operation kept.
NextQuery ==
    \/ \E t \in {Main, "t1"}, u \in OneUrl :
          webviews = << >> /\ create_webview(t, 1, <<800, 600>>, u, FALSE)
    \/ \E t \in {Main, "t1"}, id \in Ids : destroy_webview(t, id)
    \/ \E t \in Threads, op \in QueryOps, id \in Ids : state_query(t, op, id)
    \/ RunQueued
    \/ \E id \in Ids, title \in Titles :
          document_title_changed_handler(id, title)

SpecQuery == InitObserved /\ [][NextQuery]_vars

\* Every kind of dispatched operation called from every thread on one
\* webview at a time, the record of the last operation kept.
NextDispatch ==
    \/ \E t \in Threads, u \in OneUrl :
          webviews = << >> /\ create_webview(t, 1, <<800, 600>>, u, FALSE)
    \/ \E t \in Threads, id \in Ids, u \in OneUrl : load_url(t, id, u)
    \/ \E t \in Threads, id \in Ids : set_bounds(t, id, <<0, 0, 0, 0>>)
    \/ \E t \in Threads, id \in Ids : destroy_webview(t, id)
    \/ RunQueued

SpecDispatch == InitObserved /\ [][NextDispatch]_vars

\* Every kind of lifecycle and mutation operation called from every thread
\* on the first webview, with the record of which operation ran on which
\* thread.
NextSerial ==
    \/ \E t \in Threads, u \in OneUrl :
          next_id = 1 /\ create_webview(t, 1, <<800, 600>>, u, FALSE)
    \/ \E t \in Threads, id \in {1} : set_bounds(t, id, <<0, 0, 0, 0>>)
    \/ \E t \in Threads, id \in {1}, u \in OneUrl : load_url(t, id, u)
    \/ \E t \in Threads, id \in {1} : evaluate_javascript(t, id)
    \/ \E t \in Threads, id \in {1} :
          set_cookie(t, id, WebViewCookie("sid", "v1", None, TRUE, None))
    \/ \E t \in Threads, id \in {1} : destroy_webview(t, id)
    \/ RunQueued

SpecSerial == InitWith("thread") /\ [][NextSerial]_vars

\* The first webview under blocking and posted operations from every
\* thread and calls made from the host's navigation handler, with the
\* designated thread always getting to run what is queued.
NextLive ==
    \/ \E t \in Threads, u \in OneUrl :
          next_id = 1 /\ create_webview(t, 1, <<800, 600>>, u, TRUE)
    \/ \E t \in Threads, u \in OneUrl : load_url(t, 1, u)
    \/ \E t \in Threads : set_bounds(t, 1, <<0, 0, 0, 0>>)
    \/ \E t \in Threads : destroy_webview(t, 1)
    \/ \E u \in OneUrl : host_navigation_handler(1, u)
    \/ RunQueued

SpecLive == Init /\ [][NextLive]_vars /\ WF_vars(RunQueued)

\* The first webview under bounds, navigation and destroy calls from every
\* thread, with the history of the order in which each thread issued them.
NextOrder ==
    \/ \E t \in Threads, u \in OneUrl :
          next_id = 1 /\ create_webview(t, 1, <<800, 600>>, u, FALSE)
    \/ \E t \in Threads, b \in TwoBounds : set_bounds(t, 1, b)
    \/ \E t \in Threads, u \in OneUrl : load_url(t, 1, u)
    \/ \E t \in Threads : destroy_webview(t, 1)
    \/ RunQueued

SpecOrder == InitWith("order") /\ [][NextOrder]_vars

\* Header lists a host may pass: empty, valid, and with an invalid name or
\* value.
HeaderLists ==
    { << >>,
      << HttpHeader("accept", "text/html") >>,
      << HttpHeader("bad name", "abc") >>,
      << HttpHeader("x-token", "abc"), HttpHeader("accept", "bad\nvalue") >> }

\* One webview under the navigation operations and the page-load handler,
\* the record of the last operation kept.
NextNavigate ==
    \/ \E t \in {Main, "t1"}, u \in OneUrl :
          next_id = 1 /\ create_webview(t, 1, <<800, 600>>, u, FALSE)
    \/ \E t \in {Main, "t1"}, id \in Ids, u \in OneUrl : load_url(t, id, u)
    \/ \E t \in {Main, "t1"}, id \in Ids, u \in OneUrl, hs \in HeaderLists :
          load_url_with_headers(t, id, u, hs)
    \/ \E t \in {Main, "t1"}, id \in Ids : stop_loading(t, id)
    \/ \E id \in Ids, ev \in {"Started", "Finished"}, u \in Urls :
          page_load_handler(id, ev, u)
    \/ RunQueued

SpecNavigate == InitObserved /\ [][NextNavigate]_vars

\* Every operation of the facade called with identifiers that are and are
\* not in the registry (before the first create, after destroy, never
\* issued), with valid and invalid cookie records and header lists; the
\* record of the last operation kept.
NextUnknown ==
    \/ \E t \in {"t1"}, u \in OneUrl :
          next_id = 1 /\ create_webview(t, 1, <<800, 600>>, u, FALSE)
    \/ \E t \in {"t1"}, id \in Ids : destroy_webview(t, id)
    \/ \E t \in {"t1"}, id \in Ids : set_bounds(t, id, <<0, 0, 0, 0>>)
    \/ \E t \in {"t1"}, id \in Ids, u \in OneUrl : load_url(t, id, u)
    \/ \E t \in {Main, "t1"}, id \in Ids, u \in OneUrl,
          hs \in { << HttpHeader("accept", "text/html") >>,
                   << HttpHeader("bad name", "abc") >> } :
          load_url_with_headers(t, id, u, hs)
    \/ \E t \in {"t1"}, id \in Ids : stop_loading(t, id)
    \/ \E t \in {"t1"}, id \in Ids : evaluate_javascript(t, id)
    \/ \E t \in {Main, "t1"}, id \in Ids, e \in {None, Some(FarMs)} :
          set_cookie(t, id, WebViewCookie("sid", "v1", e, FALSE, None))
    \/ \E t \in {"t1"}, id \in Ids, u \in OneUrl :
          get_cookies_for_url(t, id, u)
    \/ \E t \in {"t1"}, op \in QueryOps, id \in Ids :
          state_query(t, op, id)
    \/ RunQueued

SpecUnknown == InitObserved /\ [][NextUnknown]_vars

\* One webview with its locks being poisoned: the operations that take each
\* lock, the handlers that write the mirror, and the log sink registration;
\* the record of the last operation kept.
NextPoison ==
    \/ \E u \in OneUrl :
          next_id = 1 /\ create_webview("t1", 1, <<800, 600>>, u, FALSE)
    \/ destroy_webview("t1", 1)
    \/ \E op \in {"get_url", "is_loading", "get_title", "drain_ipc_messages"} :
          state_query("t1", op, 1)
    \/ RunQueued
    \/ \E u \in {"u2"} : page_load_handler(1, "Finished", u)
    \/ \E title \in Titles : document_title_changed_handler(1, title)
    \/ \E m \in {"m1"} : ipc_handler(1, m)
    \/ \E t \in {Main, "t1"}, sink \in Sinks : set_native_logger(t, sink)
    \/ \E l \in Locks : PanicHolding(l)

SpecPoison == InitObserved /\ [][NextPoison]_vars

\* Two webviews, with and without a host navigation handler, under the
\* native event handlers, while the registry table lock may get poisoned;
\* the record of the last operation kept.
NextHandlers ==
    \/ \E u \in OneUrl, nav \in BOOLEAN :
          create_webview("t1", 1, <<800, 600>>, u, nav)
    \/ RunQueued
    \/ \E id \in Ids, u \in {"u2"}, allow \in BOOLEAN :
          navigation_handler(id, u, allow)
    \/ \E id \in Ids, ev \in {"Started", "Finished"}, u \in OneUrl :
          page_load_handler(id, ev, u)
    \/ \E id \in Ids, title \in Titles :
          document_title_changed_handler(id, title)
    \/ \E id \in Ids, m \in {"m1"} : ipc_handler(id, m)
    \/ PanicHolding("table")

SpecHandlers == InitObserved /\ [][NextHandlers]_vars

\* Two webviews under widget operations and destroy calls from every
\* thread, the native call bodies taking two steps of the designated thread,
\* which starts nothing else while it is inside one; the record of the last
\* operation kept.
NextInFlight ==
    \/ \E u \in OneUrl : create_webview("t1", 1, <<800, 600>>, u, FALSE)
    \/ \E t \in Callers, id \in Ids : set_bounds(t, id, <<0, 0, 0, 0>>)
    \/ \E t \in Callers, id \in Ids, u \in OneUrl : load_url(t, id, u)
    \/ \E t \in Callers, id \in Ids : destroy_webview(t, id)
    \/ \E id \in Ids :
          DesignatedIdle /\ set_bounds(Main, id, <<0, 0, 0, 0>>)
    \/ \E id \in Ids : DesignatedIdle /\ destroy_webview(Main, id)
    \/ DesignatedIdle /\ RunQueued
    \/ BeginBody
    \/ EndBody

SpecInFlight == InitObserved /\ [][NextInFlight]_vars

\* Webviews created and destroyed while every kind of operation is called
\* on their identifiers, with the history of the identifiers found dead.
NextDead ==
    \/ \E u \in OneUrl : create_webview("t1", 1, <<800, 600>>, u, FALSE)
    \/ \E t \in {Main, "t1"}, id \in Ids : destroy_webview(t, id)
    \/ \E t \in {Main, "t1"}, id \in Ids :
          set_bounds(t, id, <<0, 0, 0, 0>>)
    \/ \E id \in Ids, u \in OneUrl,
          hs \in { << HttpHeader("accept", "text/html") >>,
                   << HttpHeader("bad name", "abc") >> } :
          load_url_with_headers("t1", id, u, hs)
    \/ \E id \in Ids, e \in {None, Some(FarMs)} :
          set_cookie("t1", id, WebViewCookie("sid", "v1", e, FALSE, None))
    \/ \E id \in Ids : state_query("t1", "get_url", id)
    \/ RunQueued

SpecDead == InitWith("dead") /\ [][NextDead]_vars

\* ------------------------------------------------------------------ claims
Range(f) == {f[i] : i \in DOMAIN f}

\* C1: the identifiers returned by successful create calls are strictly
\* increasing in assignment order, hence pairwise distinct, also after the
\* webview that held an identifier was destroyed.
C1_IdsStrictlyIncreasing ==
    \A i, j \in 1..Len(issued) : i < j => issued[i] < issued[j]

C1_Witness ==
    /\ Len(issued) = 2
    /\ issued[1] \in destroyed
    /\ issued[1] \notin DOMAIN webviews
    /\ issued[2] \in DOMAIN webviews

\* C2: once a destroy(id) call has returned to its caller, every operation
\* other than destroy run on id from any thread answers NotFound(id).
C2_AfterDestroyNotFound ==
    \A id \in destroyed, t \in Threads,
       op \in (DispatchedOps \cup QueryOps) \ {"create", "destroy"} :
        \A env \in EnvsFor(platform, op) :
            Exec(Cur, platform, Item(op, id, ZeroB, "u1", 0, FALSE), t, env).res
                = Err("NotFound", id)

\* C3: destroy of an identifier that is not registered (never issued, or
\* already destroyed) returns success and leaves the registry, the counter
\* and every other webview as they were.
C3_DestroyUnknownIsNoop ==
    (last.it.op = "destroy" /\ ~last.live) =>
        /\ last.res = OkUnit
        /\ last.returned = OkUnit
        /\ last.same
        /\ last.nat = NoNative

C3_Witness ==
    /\ last.it.op = "destroy"
    /\ ~last.live
    /\ last.it.id \in Range(issued)
    /\ DOMAIN webviews # {}

\* C5: whenever the lookup, the thread check or the native call inside an
\* operation fails, the value its caller receives is that error.
C5_FailuresSurfaced ==
    IsErr(last.fail) => last.returned = last.fail

\* C8: the bounds handed to the native widget by create and set_bounds have
\* the position given and width and height raised to at least 1.
Floor1(v) == IF v >= 1 THEN v ELSE 1

C8_BoundsFloor ==
    /\ last.nat.call \in {"build", "set_bounds"} =>
          last.nat.arg = <<last.it.b[1], last.it.b[2], Floor1(last.it.b[3]),
                           Floor1(last.it.b[4])>>
    /\ \A id \in DOMAIN webviews :
          webviews[id].bounds[3] >= 1 /\ webviews[id].bounds[4] >= 1

C8_Witness ==
    /\ last.nat.call = "set_bounds"
    /\ last.it.b = <<0, 0, 0, 0>>
    /\ last.it.id \in DOMAIN webviews
    /\ webviews[last.it.id].bounds = <<0, 0, 1, 1>>

\* C10: create with parent handle 0 fails with InvalidWindowHandle on every
\* platform before any platform initialisation or widget construction and
\* leaves the registry and the identifier counter unchanged.
C10_ZeroHandleRejected ==
    (last.it.op = "create" /\ last.it.handle = 0) =>
        /\ last.res = Err("InvalidWindowHandle", 0)
        /\ last.returned = last.res
        /\ last.nat = NoNative
        /\ last.same

C10_Witness ==
    /\ last.it.op = "create"
    /\ last.it.handle = 0
    /\ platform = "linux"
    /\ ~gtk_init
    /\ last.on = Main

\* C4: an affinity-checked access to a registered webview made on a thread
\* other than its owner returns WrongThread without running the native
\* call, and every native widget call runs on the widget's owning thread.
C4_AffinityChecked ==
    /\ (/\ last.live
        /\ last.it.op \in {"set_bounds", "evaluate_javascript", "destroy"}
        /\ last.on # last.owner) =>
          /\ last.res = Err("WrongThread", last.it.id)
          /\ last.returned = last.res
          /\ last.nat = NoNative
          /\ last.same
    /\ last.nat.call # "none" => last.nat.on = last.nat.owner

C4_Witness ==
    /\ last.live
    /\ last.it.op = "set_bounds"
    /\ last.on = "t1"
    /\ last.owner = "t2"

\* C6: the lists returned by the drain calls on a webview, concatenated and
\* followed by what is still queued, are exactly the messages pushed, in
\* push order: nothing lost, nothing returned twice, and a drain leaves the
\* queue empty.
C6_DrainFifoExactlyOnce ==
    \A id \in DOMAIN webviews :
        hist[id].drained \o webviews[id].ipc_messages = hist[id].pushed

C6_Witness ==
    \E id \in DOMAIN webviews :
        /\ hist[id].drained = <<"m1">>
        /\ webviews[id].ipc_messages = <<"m2">>

\* C7: a webview created and not yet touched by an event or a navigation
\* reports loading; when the last thing that happened to it is a
\* load-finished event it reports not loading and the URL of that event.
C7_LoadingUntilFinished ==
    \A id \in DOMAIN webviews :
        LET it == Item("is_loading", id, ZeroB, "", 0, FALSE)
        IN  /\ hist[id].mark = "new" =>
                  is_loading(Cur, it).res = OkBool(TRUE)
            /\ hist[id].mark = "finished" =>
                  /\ is_loading(Cur, it).res = OkBool(FALSE)
                  /\ get_url(Cur, it).res = OkStr(hist[id].url)

C7_Witness ==
    \E id \in DOMAIN webviews :
        /\ hist[id].mark = "finished"
        /\ hist[id].url = "u2"
        /\ ~webviews[id].is_loading

\* C9 as claimed: when set_bounds B is issued after every earlier set_bounds
\* on the id has returned, then once no set_bounds for the id is queued the
\* widget's bounds are B's.
Expected(b) == <<b[1], b[2], Floor1(b[3]), Floor1(b[4])>>

C9_LastWriteWins ==
    \A id \in DOMAIN webviews :
        (hist[id].want # << >> /\ PendingSetBounds(id) = {}) =>
            webviews[id].bounds = Expected(hist[id].want)

\* C9 restricted to what the dispatch queue orders: the same, unless B ran
\* inline on the designated thread while an earlier set_bounds, posted
\* without waiting, was still queued.
C9_LastWriteWinsInQueueOrder ==
    \A id \in DOMAIN webviews :
        (/\ hist[id].want # << >>
         /\ ~hist[id].overtaken
         /\ PendingSetBounds(id) = {}) =>
            webviews[id].bounds = Expected(hist[id].want)

\* C11 as claimed: on macOS a create with a non-zero handle passes handle
\* resolution exactly when the object is a kind of NSWindow or of NSView.
IsWindowOrView(h) == IsKindOfClass(h, "NSWindow") \/ IsKindOfClass(h, "NSView")

Resolved(h) == raw_window_handle_from("macos", h)

C11_ResolvesIffWindowOrView ==
    (platform = "macos" /\ last.it.op = "create" /\ last.it.handle # 0) =>
        /\ ~IsErr(Resolved(last.it.handle)) <=> IsWindowOrView(last.it.handle)
        /\ last.res = Err("InvalidWindowHandle", 0)
              <=> ~IsWindowOrView(last.it.handle)

\* C11 amended: resolution succeeds exactly for a kind of NSWindow whose
\* content view is not nil, which resolves to that content view, and for a
\* kind of NSView, which resolves to itself; every other object fails with
\* InvalidWindowHandle before anything is built.
C11_ResolvesWindowWithContentOrView ==
    (platform = "macos" /\ last.it.op = "create" /\ last.it.handle # 0) =>
        LET h == last.it.handle
            ok == \/ IsKindOfClass(h, "NSWindow") /\ contentView(h) # 0
                  \/ IsKindOfClass(h, "NSView")
        IN  /\ ~IsErr(Resolved(h)) <=> ok
            /\ (ok /\ IsKindOfClass(h, "NSWindow")) =>
                  Resolved(h) = OkId(contentView(h))
            /\ (ok /\ IsKindOfClass(h, "NSView")) => Resolved(h) = OkId(h)
            /\ ~ok => /\ last.res = Err("InvalidWindowHandle", 0)
                      /\ last.returned = last.res
                      /\ last.nat = NoNative
                      /\ last.same
            /\ ok => last.res # Err("InvalidWindowHandle", 0)

C11_Witness ==
    /\ platform = "macos"
    /\ last.it.op = "create"
    /\ last.it.handle = 5
    /\ last.res = OkId(2)
    /\ Resolved(5) = OkId(6)

\* C12: a cookie record that is converted to the native cookie, stored, and
\* converted back keeps its name, value and same-site policy; its expiry
\* date, when it had one, denotes the same instant; and its session flag is
\* kept when it had no expiry date.
SameCookie(r, back) ==
    /\ back.name = r.name
    /\ back.value = r.value
    /\ back.same_site = r.same_site
    /\ r.expires_date_ms # None => back.expires_date_ms = r.expires_date_ms
    /\ r.expires_date_ms = None =>
          /\ back.expires_date_ms = None
          /\ back.is_session_only = r.is_session_only

C12_CookieRoundTrip ==
    /\ (last.it.op = "set_cookie" /\ last.res = OkUnit) =>
          \E i \in 1..Len(webviews[last.it.id].cookies) :
              SameCookie(last.it.cookie,
                         cookie_record_from(webviews[last.it.id].cookies[i]))
    /\ (last.it.op = "get_cookies_for_url" /\ ~IsErr(last.res)) =>
          /\ Len(last.res.list) = Len(webviews[last.it.id].cookies)
          /\ \A i \in 1..Len(last.res.list) :
                \E r \in CookieRecords : SameCookie(r, last.res.list[i])
    /\ \A r \in CookieRecords :
          ~IsErr(cookie_from_record(r).res) =>
              SameCookie(r, cookie_record_from(cookie_from_record(r).cookie))

C12_Witness ==
    /\ last.it.op = "get_cookies_for_url"
    /\ Len(last.res.list) = 1
    /\ last.res.list[1].expires_date_ms = Some(-1500)
    /\ last.res.list[1].same_site = Some("Lax")
    /\ webviews[last.it.id].cookies[1].expires.secs = -2
    /\ webviews[last.it.id].cookies[1].expires.nanos = 500000000

\* C13: a state query on a registered webview succeeds on whichever thread
\* calls it, is answered on that thread without a native call, and neither
\* enters the designated thread's queue nor blocks its caller.
C13_QueriesNeverDispatched ==
    [][(last' # last /\ last'.it.op \in QueryOps) =>
          /\ queue' = queue
          /\ pc' = pc
          /\ last'.nat = NoNative
          /\ last'.live =>
                /\ ~IsErr(last'.res)
                /\ last'.returned = last'.res]_vars

C13_Witness ==
    /\ last.it.op = "get_title"
    /\ last.live
    /\ last.on = "t2"
    /\ last.owner = Main
    /\ last.res = OkStr("Home")
    /\ queue # << >>
    /\ pc["t1"] = "waiting"

\* C14: a create call that fails, at handle resolution, at platform
\* initialisation or at the native build, leaves the registered identifiers
\* and the counter as they were; a create call that succeeds has built the
\* widget it registers; and every registered identifier is one that a
\* successful create returned.
C14_NoEntryBeforeBuilt ==
    /\ (last.it.op = "create" /\ IsErr(last.res)) => last.ids_kept
    /\ (last.it.op = "create" /\ ~IsErr(last.res)) =>
          /\ last.nat.call = "build"
          /\ last.nat.id = last.res.id
          /\ ~last.ids_kept
    /\ \A id \in DOMAIN webviews : id \in Range(issued)

C14_Witness ==
    /\ platform = "linux"
    /\ last.it.op = "create"
    /\ last.res = WryError
    /\ last.nat.call = "build"
    /\ gtk_init
    /\ DOMAIN webviews = {1}
    /\ next_id = 2

\* C15: an operation that is not posted without waiting runs on the
\* designated thread and its caller receives exactly the closure's result;
\* its caller stays blocked for as long as the closure waits in the queue;
\* and a call made on the designated thread runs in place, never queued.
C15_SynchronousDispatch ==
    /\ (last.it.op \in DispatchedOps /\ last.route # "async") =>
          /\ last.on = Main
          /\ last.returned = last.res
    /\ last.by = Main => last.route = "inline"
    /\ \A i \in 1..Len(queue) : queue[i].from # Main
    /\ \A t \in Callers :
          pc[t] = "waiting" <=>
              \E i \in 1..Len(queue) : queue[i].from = t

C15_Witness ==
    /\ last.it.op = "load_url"
    /\ last.route = "sync"
    /\ last.by = "t1"
    /\ last.on = Main
    /\ last.res = WryError
    /\ last.returned = WryError
    /\ pc["t1"] = "idle"
    /\ pc["t2"] = "waiting"

\* C16: the body of every lifecycle and mutation operation runs on the
\* designated thread, whichever thread called it, so the bodies run one at
\* a time; what waits to run waits in that thread's queue.
C16_BodiesOnDesignatedThread ==
    /\ last.it.op \in DispatchedOps => last.on = Main
    /\ \A id \in DOMAIN webviews : webviews[id].thread_id = Main

C16_Witness ==
    /\ last.it.op = "set_cookie"
    /\ last.on = Main
    /\ Len(queue) = 2
    /\ queue[1].from = "t1"
    /\ queue[2].op = "destroy"
    /\ queue[2].ret = OkUnit
    /\ \E id \in DOMAIN webviews : Len(webviews[id].cookies) = 1

C18_IssueOrderPerCaller ==
    /\ \A id \in Ids : hist[id].in_order
    /\ \A i \in 1..Len(queue) :
          /\ queue[i].caller # Main
          /\ queue[i].behind = Cardinality({j \in 1..(i - 1) :
                                   /\ queue[j].caller = queue[i].caller
                                   /\ queue[j].id = queue[i].id})

C18_Witness ==
    /\ platform = "macos"
    /\ hist[1].in_order
    /\ hist[1].followed
    /\ 1 \in DOMAIN webviews
    /\ webviews[1].bounds = <<5, -3, I32Max, 1>>
    /\ webviews[1].is_loading
    /\ queue = << >>

\* C19: when load_url, load_url_with_headers or stop_loading fails, the
\* webview's loading flag, URL, title and message queue are as they were
\* before the call.
C19_MirrorUnchangedOnFailure ==
    (/\ last.it.op \in {"load_url", "load_url_with_headers", "stop_loading"}
     /\ IsErr(last.res)) => last.same

\* C20: every operation except create and destroy, run with an identifier
\* that is not in the registry, returns NotFound(id) and no other error
\* whatever its other arguments are, makes no native call and changes
\* nothing.
C20_UnknownIdFailsFast ==
    (/\ last.it.op \in (DispatchedOps \cup QueryOps) \ {"create", "destroy"}
     /\ ~last.live)
        => /\ last.res = Err("NotFound", last.it.id)
           /\ last.nat = NoNative
           /\ last.same

\* The public operations: those of the facade and the log sink registration.
PublicOps == DispatchedOps \cup QueryOps \cup {"set_native_logger"}

\* The locks an operation takes when it runs on a registered webview.
LocksTaken(op) ==
    CASE op = "set_native_logger" -> {"logger"}
      [] op = "get_url" -> {"table", "url"}
      [] op = "get_title" -> {"table", "title"}
      [] op = "drain_ipc_messages" -> {"table", "ipc"}
      [] OTHER -> {"table"}

\* C21: a public operation never panics; one that met a poisoned lock
\* returned Internal to its caller, and a create whose registry table lock
\* is poisoned does not succeed.
C21_PoisonedLockReturnsInternal ==
    last.it.op \in PublicOps =>
        /\ last.res # Panic
        /\ (last.it.op = "create" /\ "table" \in last.locks)
              => IsErr(last.res)
        /\ (/\ last.it.op # "create"
            /\ LocksTaken(last.it.op) \cap last.locks # {}
            /\ (last.live \/ last.it.op = "set_native_logger"
                          \/ "table" \in last.locks))
              => last.res = Internal

HandlerOps ==
    {"navigation_handler", "page_load_started", "page_load_finished",
     "document_title_changed_handler", "ipc_handler"}

\* A step in which a native event handler of webview id fires.
HandlerFires(id) ==
    /\ last'.it.op \in HandlerOps
    /\ last'.it.id = id
    /\ last' # last \/ webviews' # webviews \/ hist' # hist

\* C22: a native event handler changes nothing but the state mirror of its
\* own webview: the registered identifiers, the owning threads, the counter,
\* the widgets and every other webview are as before, nothing is queued,
\* and its mirror write lands also when the registry table lock is
\* poisoned, so the handler does not take that lock.
C22_HandlersTouchOwnMirrorOnly ==
    [][\A id \in Ids : HandlerFires(id) =>
          /\ DOMAIN webviews' = DOMAIN webviews
          /\ next_id' = next_id
          /\ queue' = queue
          /\ pc' = pc
          /\ \A i \in DOMAIN webviews :
                /\ webviews'[i].thread_id = webviews[i].thread_id
                /\ webviews'[i].bounds = webviews[i].bounds
                /\ webviews'[i].cookies = webviews[i].cookies
                /\ webviews'[i].nav = webviews[i].nav
                /\ i # id => webviews'[i] = webviews[i]
          /\ last'.it.op = "document_title_changed_handler"
                => webviews'[id].page_title = last'.it.url
          /\ last'.it.op = "page_load_started"
                => webviews'[id].is_loading]_vars

C22_Witness ==
    /\ last.it.op = "document_title_changed_handler"
    /\ last.it.id = 2
    /\ "table" \in last.locks
    /\ DOMAIN webviews = {1, 2}
    /\ webviews[2].page_title = "Home"
    /\ webviews[1].page_title = ""
    /\ ~last.same

\* C23: a navigation attempt on a webview created with a host navigation
\* handler is allowed exactly when the handler answers true for the target
\* URL and cancelled when it answers false; on a webview created without
\* one, every navigation attempt is allowed.
C23_NavigationDecision ==
    [][\A id \in Ids, u \in Urls, allow \in BOOLEAN :
          navigation_handler(id, u, allow) =>
              /\ last'.it.op = "navigation_handler"
              /\ last'.it.url = u
              /\ last'.res = OkBool(IF webviews[id].nav THEN allow ELSE TRUE)
       ]_vars

C23_Witness ==
    /\ last.it.op = "navigation_handler"
    /\ last.it.id \in DOMAIN webviews
    /\ webviews[last.it.id].nav
    /\ last.res = OkBool(FALSE)
    /\ \E i \in DOMAIN webviews : ~webviews[i].nav

\* C24: a navigation-started event sets the loading flag and the current URL
\* of a webview created without a host navigation handler, and leaves the
\* whole mirror of a webview created with one as it was, whether the handler
\* allows or cancels the navigation.
C24_NavigationStartedMirror ==
    [][\A id \in Ids :
          (HandlerFires(id) /\ last'.it.op = "navigation_handler") =>
              IF webviews[id].nav
              THEN webviews'[id] = webviews[id]
              ELSE /\ webviews'[id].is_loading
                   /\ webviews'[id].current_url = last'.it.url
                   /\ webviews'[id].page_title = webviews[id].page_title
                   /\ webviews'[id].ipc_messages = webviews[id].ipc_messages
       ]_vars

C24_Witness ==
    /\ last.it.op = "navigation_handler"
    /\ last.it.id \in DOMAIN webviews
    /\ webviews[last.it.id].nav
    /\ last.res = OkBool(TRUE)
    /\ ~webviews[last.it.id].is_loading
    /\ webviews[last.it.id].current_url # last.it.url
    /\ \E i \in DOMAIN webviews :
          /\ ~webviews[i].nav
          /\ webviews[i].is_loading
          /\ webviews[i].current_url = last.it.url

C26_NotFoundIsPermanent ==
    \A id \in Ids : hist[id].dead =>
        /\ id \notin DOMAIN webviews
        /\ (/\ last.it.id = id
            /\ last.it.op \in (DispatchedOps \cup QueryOps)
                                \ {"create", "destroy"})
              => last.returned = Err("NotFound", id)

\* C27: the owning thread of every registry entry is the designated thread,
\* and no operation of the facade, called from any thread, meets or returns
\* WrongThread.
C27_OwnerIsDesignatedThread ==
    /\ \A id \in DOMAIN webviews : webviews[id].thread_id = Main
    /\ \A i \in 1..Len(queue) : queue[i].ret.tag # "WrongThread"
    /\ last.it.op \in DispatchedOps =>
          /\ last.on = Main
          /\ last.res.tag # "WrongThread"
          /\ last.fail.tag # "WrongThread"
          /\ last.returned.tag # "WrongThread"

C27_Witness ==
    /\ last.it.op = "load_url"
    /\ last.live
    /\ last.by = "t2"
    /\ last.route = "sync"
    /\ last.owner = Main
    /\ last.res = OkUnit
    /\ Len(issued) = 1
====
